---- MODULE Spec2Model ----
(***************************************************************************)
(* The alert subscription and trade notification engine of kekterminal:    *)
(* AlertManager (src/src/services/alert_manager.py), the poll loop of      *)
(* src/src/main.py and the /alert and /removealert handlers of             *)
(* src/src/bot/commands.py.                                                *)
(*                                                                         *)
(* Everything runs on one asyncio event loop.  The poll loop is suspended  *)
(* only at its awaits (the fetch, the send, the sleep); between two awaits *)
(* it runs without interruption, so each action below is one such stretch. *)
(* Command handlers run while the loop is suspended.                       *)
(*                                                                         *)
(* The registry self.alerts is a dict of dicts whose values are dict       *)
(* objects; process_alerts keeps references (alert_data) to those objects  *)
(* across its awaits.  The model keeps the objects in a heap (objs) and    *)
(* the registry as insertion-ordered sequences of references.              *)
(***************************************************************************)
EXTENDS Integers, Sequences, FiniteSets, TLC

\* ---------------------------------------------------------------- bounds
\* Spec: several subscriptions, commands racing with one or two sweeps
MaxCmds == 3
MaxFetches == 2
MaxTicks == 1
\* SpecPoll: one subscription key polled again and again
PollCmds == 2
PollFetches == 3
PollTicks == 3
\* SpecSweep: two or three subscriptions polled and notified in one sweep
SweepCmds == 2
SweepFetches == 2
SweepTicks == 1
\* SpecStore: commands on several keys around one poll
StoreCmds == 3
StoreFetches == 1
StoreTicks == 1
\* SpecLive: commands on two chats, and the clock steps counted exactly
LiveCmds == 2
LiveTicks == 1
\* SpecLabel: the amounts, in whole tokens, format_trade_message is given
MaxLabelAmount == 4

\* ------------------------------------------------------ program constants
MinPollInterval == 10
SleepInterval == 10
\* get_trade_size_label: the upper bounds of the buckets, in USD
ShrimpMax == 100
FishMax == 1000
DolphinMax == 2000

\* the (chat_id, token_address) keys the commands name
Keys == { <<1, "a">>, <<1, "b">>, <<2, "a">> }
PollKeys == { <<1, "a">> }
LiveKeys == { <<1, "a">>, <<2, "a">> }
Larger(m, n) == IF m > n THEN m ELSE n
MaxObjs ==
  Larger(Larger(Larger(MaxCmds, PollCmds), Larger(SweepCmds, StoreCmds)), LiveCmds)
\* every add_alert creates one dict object; the n-th command creates object n
ObjIds == 1..MaxObjs
\* the clock advances in steps of this many seconds
TickStep == MinPollInterval

None == "None"
Free == [free |-> TRUE]

\* Token amounts and prices are decimal strings in the trade record.  A
\* parseable one is modelled by its value in thousandths of a unit, one
\* that float() rejects by Bad.
Num(n) == [ok |-> TRUE, v |-> n]
Bad == [ok |-> FALSE, v |-> 0]
Min50 == 50 * 1000
Below50 == Min50 - 1

\* --------------------------------------------------------------- inputs
\* Arguments of add_alert.
AlertArgs ==
  { [ticker |-> "Tok (TOK)", pool_address |-> "p1", trade_type |-> None,
     min_amount |-> Min50, image_url |-> None, ref_code |-> None],
    [ticker |-> "Tok (TOK)", pool_address |-> "p1", trade_type |-> "BUY",
     min_amount |-> Min50, image_url |-> "img", ref_code |-> "REF"],
    [ticker |-> "Tok (TOK)", pool_address |-> "p2", trade_type |-> "any",
     min_amount |-> 0, image_url |-> None, ref_code |-> "REF"] }

\* SpecSweep subscribes to buys of 50 and more only
SweepArgs == { a \in AlertArgs : a.trade_type = "BUY" }

\* The trades the market data source can report as a pool's latest trade.
Trades ==
  { [id |-> "T1", kind |-> "buy",  to_token_amount |-> Num(Min50),
     from_token_amount |-> Num(Below50), price_to_in_usd |-> Num(2000),
     price_from_in_usd |-> Num(2000)],
    [id |-> "T2", kind |-> "sell", to_token_amount |-> Num(Below50),
     from_token_amount |-> Num(Min50), price_to_in_usd |-> Num(2000),
     price_from_in_usd |-> Num(2000)],
    [id |-> "T3", kind |-> "buy",  to_token_amount |-> Num(Below50),
     from_token_amount |-> Num(Min50), price_to_in_usd |-> Num(2000),
     price_from_in_usd |-> Num(2000)],
    [id |-> "T4", kind |-> "buy",  to_token_amount |-> Bad,
     from_token_amount |-> Num(Min50), price_to_in_usd |-> Num(2000),
     price_from_in_usd |-> Num(2000)],
    [id |-> "T5", kind |-> "buy",  to_token_amount |-> Num(Min50),
     from_token_amount |-> Num(Min50), price_to_in_usd |-> Bad,
     price_from_in_usd |-> Num(2000)] }

TradeIds == { t.id : t \in Trades }
TradeOf(id) == CHOOSE t \in Trades : t.id = id

\* What awaiting api.get_pool_trades can give: an exception ("raise"), a
\* result that fails the test of line 69 (None, no 'data', or an empty
\* 'data': "empty"), or a response whose first trade is the one with this id.
FetchOutcomes == {"raise", "empty"} \cup TradeIds

\* What awaiting send_photo / send_message can give.
SendOutcomes == {"sent", "send_failed"}

VARIABLES
  now,           \* datetime.now()
  alerts,        \* self.alerts: sequence of [chat, items], items a sequence of [token, obj]
  objs,          \* the alert dict objects, by reference
  pc,            \* where the poll loop is suspended: "sleep", "fetch" or "send"
  wakeAt,        \* when asyncio.sleep(10) of the loop returns
  current_time,  \* process_alerts: current_time
  chatsLeft,     \* process_alerts: rest of list(self.alerts.keys())
  curChat,       \* process_alerts: chat_id
  itemsLeft,     \* process_alerts: rest of list(self.alerts[chat_id].items())
  cur,           \* process_alerts: (token_address, alert_data) being fetched
  new_trades,    \* process_alerts: new_trades, then the rest of main's loop over it
  ev,            \* the step just taken: what it was given and what it answered
  failed,        \* the polls for which line 107 logged an error in this sweep
  processed,     \* per alert object, the trade ids lines 77-101 have classified
  started,       \* per alert object, when its latest fetch was started (-1: never)
  cmds,          \* number of commands handled
  fetches,       \* number of fetches that completed
  fmt            \* format_trade_message: amount, price, total_value_usd, size_label

vars == <<now, alerts, objs, pc, wakeAt, current_time, chatsLeft, curChat,
          itemsLeft, cur, new_trades, ev, failed, processed, started, cmds,
          fetches, fmt>>

sweepVars == <<pc, wakeAt, current_time, chatsLeft, curChat, itemsLeft, cur,
               new_trades, failed>>

NoCur == [token |-> "", obj |-> 0]

\* ev.type is "init", "tick", "alert", "removealert", "sweep", "fetch" or
\* "send".  For a command chat/token are its key and ok its return value; for
\* "fetch" chat/token/obj are the subscription polled, res what the fetch
\* gave and collected whether new_trades[(chat_id, token_address)] was
\* assigned; for "send" chat/token are the destination, res the trade id and
\* result what the send gave and ref the referral code in the trade link of
\* the message.  raised is the exception main.py:64 caught.
NoEv == [type |-> "init", chat |-> 0, token |-> "", obj |-> 0, res |-> "",
         ok |-> FALSE, collected |-> FALSE, result |-> "", raised |-> "",
         ref |-> ""]

\* ------------------------------------------------------- registry helpers
\* position of chat_id in self.alerts, 0 when chat_id not in self.alerts
ChatIdx(s, c) ==
  IF \E i \in 1..Len(s) : s[i].chat = c
  THEN CHOOSE i \in 1..Len(s) : s[i].chat = c ELSE 0

\* position of token_address in a chat's dict, 0 when it is not in it
TokenIdx(its, t) ==
  IF \E i \in 1..Len(its) : its[i].token = t
  THEN CHOOSE i \in 1..Len(its) : its[i].token = t ELSE 0

RemoveAt(s, i) == SubSeq(s, 1, i - 1) \o SubSeq(s, i + 1, Len(s))

\* self.alerts.get(chat_id, {}).get(token_address): the reference, 0 for None
get_alert(s, c, t) ==
  IF ChatIdx(s, c) = 0 THEN 0
  ELSE LET its == s[ChatIdx(s, c)].items
       IN IF TokenIdx(its, t) = 0 THEN 0 ELSE its[TokenIdx(its, t)].obj

\* self.alerts.get(chat_id, {}): the tokens of the chat, in the dict's order
get_active_alerts(s, c) ==
  IF ChatIdx(s, c) = 0 THEN <<>>
  ELSE LET its == s[ChatIdx(s, c)].items
       IN [i \in 1..Len(its) |-> its[i].token]

\* ------------------------------------------------------------ the heap
ItemRefs(its) == { its[j].obj : j \in 1..Len(its) }
StoreRefs(s) == UNION { ItemRefs(s[i].items) : i \in 1..Len(s) }

\* the objects something still refers to: the registry, the snapshot of the
\* current chat, alert_data of the pending fetch and of the poll just made
Roots(s, its, c, e) == (StoreRefs(s) \cup ItemRefs(its) \cup {c.obj, e.obj}) \ {0}

\* objects nothing refers to are reclaimed
Collect(h, live) == [o \in ObjIds |-> IF o \in live THEN h[o] ELSE Free]
Forget(p, live) == [o \in ObjIds |-> IF o \in live THEN p[o] ELSE {}]

\* the reference the dict created by command number n gets
NewObj(n) == n

\* ---------------------------------------------------------- AlertManager
\* str.lower() on the direction words the callers pass
Lower(w) == IF w = "BUY" THEN "buy" ELSE IF w = "SELL" THEN "sell" ELSE w

\* the dict add_alert stores
NewAlert(a, time) ==
  [ticker |-> a.ticker,
   pool_address |-> a.pool_address,
   last_trade_id |-> None,
   last_check |-> time,
   trade_type |-> IF a.trade_type # None THEN Lower(a.trade_type) ELSE None,
   min_amount |-> a.min_amount,
   image_url |-> a.image_url,
   ref_code |-> a.ref_code]

\* add_alert: the registry afterwards, with the new dict at reference o
add_alert(s, c, t, o) ==
  LET s1 == IF ChatIdx(s, c) = 0 THEN Append(s, [chat |-> c, items |-> <<>>]) ELSE s
      ci == ChatIdx(s1, c)
      its == s1[ci].items
      ti == TokenIdx(its, t)
      its1 == IF ti = 0 THEN Append(its, [token |-> t, obj |-> o])
              ELSE [its EXCEPT ![ti].obj = o]
  IN [s1 EXCEPT ![ci].items = its1]

\* add_alert: its return value
add_alert_result(s, c, t) == TRUE

\* remove_alert: its return value
remove_alert_result(s, c, t) == get_alert(s, c, t) # 0

\* remove_alert deleting the chat's whole dict instead of the one token
remove_alert_chat(s, c, t) ==
  IF get_alert(s, c, t) = 0 THEN s ELSE RemoveAt(s, ChatIdx(s, c))

\* remove_alert: the registry afterwards
remove_alert(s, c, t) ==
  IF get_alert(s, c, t) = 0 THEN s
  ELSE LET ci == ChatIdx(s, c)
           its1 == RemoveAt(s[ci].items, TokenIdx(s[ci].items, t))
       IN IF its1 = <<>> THEN RemoveAt(s, ci)
          ELSE [s EXCEPT ![ci].items = its1]

\* ------------------------------------------------------- process_alerts
\* the loop without the cooldown test
DueAlways(a, ct) == TRUE

\* "if time_since_last_check < 10: continue"
Due(a, ct) == ~(ct - a.last_check < MinPollInterval)

RECURSIVE FirstDue(_, _, _, _)
\* the first item of the snapshot its, from position i on, that is not
\* skipped by the cooldown; 0 if all are skipped
FirstDue(its, h, ct, i) ==
  IF i > Len(its) THEN 0
  ELSE IF Due(h[its[i].obj], ct) THEN i
  ELSE FirstDue(its, h, ct, i + 1)

RECURSIVE ScanChats(_, _, _, _)
\* the outer loop from the next chat of the snapshot on, up to the next await:
\* the fetch of the first due subscription, the return, or the KeyError of
\* self.alerts[chat_id] for a chat that is no longer in the registry
ScanChats(chs, s, h, ct) ==
  IF chs = <<>> THEN [kind |-> "return"]
  ELSE IF ChatIdx(s, Head(chs)) = 0 THEN [kind |-> "KeyError"]
  ELSE LET its == s[ChatIdx(s, Head(chs))].items
           i == FirstDue(its, h, ct, 1)
       IN IF i > 0
          THEN [kind |-> "fetch", chat |-> Head(chs), cur |-> its[i],
                itemsLeft |-> SubSeq(its, i + 1, Len(its)), chatsLeft |-> Tail(chs)]
          ELSE ScanChats(Tail(chs), s, h, ct)

\* the inner loop from the next item of the current chat's snapshot on
ScanItems(its, c, chs, s, h, ct) ==
  LET i == FirstDue(its, h, ct, 1)
  IN IF i > 0
     THEN [kind |-> "fetch", chat |-> c, cur |-> its[i],
           itemsLeft |-> SubSeq(its, i + 1, Len(its)), chatsLeft |-> chs]
     ELSE ScanChats(chs, s, h, ct)

\* float(latest_trade['attributes'].get('to_token_amount' if is_buy else 'from_token_amount'))
TradeAmount(t) == IF t.kind = "buy" THEN t.to_token_amount ELSE t.from_token_amount

\* "if alert_data['trade_type'] and trade_type != alert_data['trade_type']"
WrongType(a, t) == a.trade_type # None /\ t.kind # a.trade_type

\* the amount test with <= for <
TooSmallStrict(a, t) == TradeAmount(t).v <= a.min_amount

\* "if amount < alert_data['min_amount']"
TooSmall(a, t) == TradeAmount(t).v < a.min_amount

\* lines 69-108 taking the first trade seen with an unset cursor only to
\* initialise the cursor
ClassifyFirstSilent(a, r) ==
  IF r = "raise" THEN "error"
  ELSE IF r = "empty" THEN "empty"
  ELSE IF r = a.last_trade_id THEN "seen"
  ELSE IF a.last_trade_id = None THEN "wrong_type"
  ELSE IF WrongType(a, TradeOf(r)) THEN "wrong_type"
  ELSE IF ~TradeAmount(TradeOf(r)).ok THEN "error"
  ELSE IF TooSmall(a, TradeOf(r)) THEN "too_small"
  ELSE "new"

\* lines 69-108 without the comparison with the cursor of line 77
ClassifyNoDedup(a, r) ==
  IF r = "raise" THEN "error"
  ELSE IF r = "empty" THEN "empty"
  ELSE IF WrongType(a, TradeOf(r)) THEN "wrong_type"
  ELSE IF ~TradeAmount(TradeOf(r)).ok THEN "error"
  ELSE IF TooSmall(a, TradeOf(r)) THEN "too_small"
  ELSE "new"

\* What lines 69-108 do with the result r of the fetch for alert_data a:
\* "error" (the except clause), "empty", "seen" (the id is the cursor),
\* "wrong_type", "too_small" or "new"
Classify(a, r) ==
  IF r = "raise" THEN "error"
  ELSE IF r = "empty" THEN "empty"
  ELSE IF r = a.last_trade_id THEN "seen"
  ELSE IF WrongType(a, TradeOf(r)) THEN "wrong_type"
  ELSE IF ~TradeAmount(TradeOf(r)).ok THEN "error"
  ELSE IF TooSmall(a, TradeOf(r)) THEN "too_small"
  ELSE "new"

\* lines 69-108 with the cursor left alone when a filter suppresses the trade
ProcessedKeepCursor(a, r, ct) ==
  LET v == Classify(a, r)
  IN IF v = "error" THEN a
     ELSE IF v = "new" THEN [a EXCEPT !.last_trade_id = r, !.last_check = ct]
     ELSE [a EXCEPT !.last_check = ct]

\* alert_data after lines 69-108
Processed(a, r, ct) ==
  LET v == Classify(a, r)
  IN IF v = "error" THEN a
     ELSE IF v \in {"empty", "seen"} THEN [a EXCEPT !.last_check = ct]
     ELSE [a EXCEPT !.last_trade_id = r, !.last_check = ct]

\* the trade ids classified for alert_data after lines 69-108
Seen(p, a, r) ==
  IF Classify(a, r) \in {"wrong_type", "too_small", "new"} THEN p \cup {r} ELSE p

\* the polls logged at line 107 after lines 69-108
Logged(f, c, t, a, r) ==
  IF Classify(a, r) = "error" THEN f \cup {[chat |-> c, token |-> t, res |-> r]} ELSE f

\* new_trades after lines 69-108
Collected(nt, c, t, a, r) ==
  IF Classify(a, r) = "new"
  THEN Append(nt, [chat |-> c, token |-> t, trade |-> TradeOf(r),
                   ticker |-> a.ticker, image_url |-> a.image_url])
  ELSE nt

\* ------------------------------------------------- format_trade_message
\* float(attributes.get('price_to_in_usd' if is_buy else 'price_from_in_usd'))
TradePrice(t) == IF t.kind = "buy" THEN t.price_to_in_usd ELSE t.price_from_in_usd

\* the float() calls of lines 132-139 raise on a malformed amount or price
Formattable(td) == TradeAmount(td.trade).ok /\ TradePrice(td.trade).ok

\* "ref_code = trade_data.get('ref_code', 'XXXX')"
RefOf(td) == IF "ref_code" \in DOMAIN td THEN td.ref_code ELSE "XXXX"

\* USD values are counted in cents
Usd(n) == n * 100

\* the buckets with exclusive upper bounds
size_label_exclusive(amount_usd) ==
  IF amount_usd < Usd(ShrimpMax) THEN "Shrimp"
  ELSE IF amount_usd < Usd(FishMax) THEN "Fish"
  ELSE IF amount_usd < Usd(DolphinMax) THEN "Dolphin"
  ELSE "Whale"

\* get_trade_size_label
get_trade_size_label(amount_usd) ==
  IF amount_usd <= Usd(ShrimpMax) THEN "Shrimp"
  ELSE IF amount_usd <= Usd(FishMax) THEN "Fish"
  ELSE IF amount_usd <= Usd(DolphinMax) THEN "Dolphin"
  ELSE "Whale"

\* "total_value_usd = amount * price", amount in tokens and price in cents
total_value_usd(amount, price) == amount * price

\* the amounts and unit prices format_trade_message is tried on
LabelAmounts == 0..MaxLabelAmount
LabelPrices ==
  { 0, 1, 2500, 3333, 5000, 9999, 10000, 10001, 25000, 33333, 33334, 50000,
    50001, 99999, 100000, 100001, 199999, 200000, 200001, 1000000 }

NoFmt == [amount |-> 0, price |-> 0, total_value_usd |-> 0, size_label |-> ""]

\* ----------------------------------------------------- main.process_alerts
RECURSIVE SkipUnformattable(_)
\* the dispatch loop up to its next await: entries whose formatting raises
\* are logged (main.py:61) and skipped
SkipUnformattable(nt) ==
  IF nt = <<>> THEN nt
  ELSE IF Formattable(Head(nt)) THEN nt
  ELSE SkipUnformattable(Tail(nt))

\* The dispatch loop is at the entries nt: it awaits the send of the first
\* that can be formatted, or leaves the loop and sleeps.
Dispatch(nt) ==
  LET rest == SkipUnformattable(nt)
  IN /\ new_trades' = rest
     /\ pc' = IF rest = <<>> THEN "sleep" ELSE "send"
     /\ wakeAt' = IF rest = <<>> THEN now + SleepInterval ELSE wakeAt

\* process_alerts from the point scan on, up to the next await of the loop;
\* ct is current_time and e the step's record.
Proceed(scan, nt, ct, e) ==
  IF scan.kind = "fetch"
  THEN /\ pc' = "fetch"
       /\ curChat' = scan.chat
       /\ cur' = scan.cur
       /\ itemsLeft' = scan.itemsLeft
       /\ chatsLeft' = scan.chatsLeft
       /\ new_trades' = nt
       /\ ev' = e
       /\ current_time' = ct
       /\ UNCHANGED wakeAt
  ELSE /\ curChat' = 0
       /\ cur' = NoCur
       /\ itemsLeft' = <<>>
       /\ chatsLeft' = <<>>
       /\ current_time' = 0
       /\ IF scan.kind = "KeyError"
          THEN \* raised out of process_alerts, caught and logged at main.py:64
               /\ pc' = "sleep"
               /\ wakeAt' = now + SleepInterval
               /\ new_trades' = <<>>
               /\ ev' = [e EXCEPT !.raised = "KeyError"]
          ELSE /\ Dispatch(nt)
               /\ ev' = e

\* ---------------------------------------------------------------- actions
\* the program before its first step, apart from fmt
InitProgram ==
  /\ now = 0
  /\ alerts = <<>>
  /\ objs = [o \in ObjIds |-> Free]
  /\ pc = "sleep"
  /\ wakeAt = 0
  /\ current_time = 0
  /\ chatsLeft = <<>>
  /\ curChat = 0
  /\ itemsLeft = <<>>
  /\ cur = NoCur
  /\ new_trades = <<>>
  /\ ev = NoEv
  /\ failed = {}
  /\ processed = [o \in ObjIds |-> {}]
  /\ started = [o \in ObjIds |-> -1]
  /\ cmds = 0
  /\ fetches = 0

Init == InitProgram /\ fmt = NoFmt

\* the step ends at line 68, awaiting the fetch it has just issued
FetchStarts == pc' = "fetch" /\ ev'.type \in {"sweep", "fetch"}

\* what is left of the heap and of its history after a step
Reclaim(h, p) ==
  LET live == Roots(alerts', itemsLeft', cur', ev')
  IN /\ objs' = Collect(h, live)
     /\ processed' = Forget(p, live)
     /\ started' = [o \in ObjIds |->
                     IF o \notin live THEN -1
                     ELSE IF FetchStarts /\ cur'.obj = o THEN now
                     ELSE started[o]]

\* time passes
Tick ==
  /\ now' = now + TickStep
  /\ ev' = [NoEv EXCEPT !.type = "tick"]
  /\ UNCHANGED <<alerts, sweepVars, cmds, fetches, fmt>>
  /\ Reclaim(objs, processed)

\* a caller of the store (the /alert handler, commands.py:410-432) adds an
\* alert and answers by add_alert's return value
AddAlert(c, t, a) ==
  /\ cmds' = cmds + 1
  /\ alerts' = add_alert(alerts, c, t, NewObj(cmds'))
  /\ ev' = [NoEv EXCEPT !.type = "alert", !.chat = c, !.token = t,
                        !.ok = add_alert_result(alerts, c, t)]
  /\ UNCHANGED <<now, sweepVars, fetches, fmt>>
  /\ Reclaim([objs EXCEPT ![NewObj(cmds')] = NewAlert(a, now)], processed)

\* /removealert: remove_alert and the handler's answer
RemoveAlert(c, t) ==
  /\ cmds' = cmds + 1
  /\ alerts' = remove_alert(alerts, c, t)
  /\ ev' = [NoEv EXCEPT !.type = "removealert", !.chat = c, !.token = t,
                        !.ok = remove_alert_result(alerts, c, t)]
  /\ UNCHANGED <<now, sweepVars, fetches, fmt>>
  /\ Reclaim(objs, processed)

\* the sleep is over: a sweep starts and runs up to its first await
SweepStart ==
  /\ pc = "sleep"
  /\ now >= wakeAt
  /\ failed' = {}
  /\ Proceed(ScanChats([i \in 1..Len(alerts) |-> alerts[i].chat], alerts, objs, now),
             <<>>, now, [NoEv EXCEPT !.type = "sweep"])
  /\ UNCHANGED <<now, alerts, cmds, fetches, fmt>>
  /\ Reclaim(objs, processed)

\* the loops without the except clause of line 106: the error leaves the sweep
AfterPollUncaught(a, r, h) ==
  IF Classify(a, r) = "error" THEN [kind |-> "KeyError"]
  ELSE ScanItems(itemsLeft, curChat, chatsLeft, alerts, h, current_time)

\* where the loops go after the fetch for alert_data a gave r, on the heap h:
\* the except clause of line 106 ends with "continue" like every other branch
AfterPoll(a, r, h) ==
  ScanItems(itemsLeft, curChat, chatsLeft, alerts, h, current_time)

\* the dict looked up again in the registry by its key after the await
alert_data_by_key(s, c, e) ==
  IF get_alert(s, c, e.token) # 0 THEN get_alert(s, c, e.token) ELSE e.obj

\* alert_data after the await: the dict the for statement of line 61 bound
\* it to, whatever the registry s holds for the key by now
alert_data(s, c, e) == e.obj

\* the fetch completes with r: lines 69-108 for this subscription, then the
\* loops up to the next await
FetchReturn(r) ==
  /\ pc = "fetch"
  /\ LET o == alert_data(alerts, curChat, cur)
         a == objs[o]
         h == [objs EXCEPT ![o] = Processed(a, r, current_time)]
         p == [processed EXCEPT ![o] = Seen(@, a, r)]
     IN /\ failed' = Logged(failed, curChat, cur.token, a, r)
        /\ Proceed(AfterPoll(a, r, h),
                   Collected(new_trades, curChat, cur.token, a, r), current_time,
                   [NoEv EXCEPT !.type = "fetch", !.chat = curChat,
                                !.token = cur.token, !.obj = cur.obj, !.res = r,
                                !.collected = (Classify(a, r) = "new")])
        /\ UNCHANGED <<now, alerts, cmds, fmt>>
        /\ Reclaim(h, p)

\* the dispatch loop without the except clause of main.py:60: a failed send
\* leaves the loop
AfterSendUncaught(nt, result) == IF result = "send_failed" THEN <<>> ELSE Tail(nt)

\* the entries the dispatch loop still has to handle when the send of the
\* first of nt gave result: the except clause of main.py:60 ends with "continue"
AfterSend(nt, result) == Tail(nt)

\* the send completes: the next entry of new_trades, or the sleep
SendReturn(result) ==
  /\ pc = "send"
  /\ Dispatch(AfterSend(new_trades, result))
  /\ ev' = [NoEv EXCEPT !.type = "send", !.chat = Head(new_trades).chat,
                        !.token = Head(new_trades).token,
                        !.res = Head(new_trades).trade.id, !.result = result,
                        !.ref = RefOf(Head(new_trades))]
  /\ current_time' = 0
  /\ UNCHANGED <<now, alerts, chatsLeft, curChat, itemsLeft, cur, failed, cmds, fetches, fmt>>
  /\ Reclaim(objs, processed)

\* format_trade_message, lines 141-144: the value of the trade and its label
LabelTrade ==
  /\ fmt.size_label = ""
  /\ fmt' = [fmt EXCEPT !.total_value_usd = total_value_usd(fmt.amount, fmt.price),
                        !.size_label = get_trade_size_label(
                                         total_value_usd(fmt.amount, fmt.price))]
  /\ UNCHANGED <<now, alerts, objs, sweepVars, ev, processed, started, cmds, fetches>>

\* format_trade_message given any of the amounts and prices
InitLabel ==
  /\ InitProgram
  /\ fmt \in { [NoFmt EXCEPT !.amount = a, !.price = p] :
                a \in LabelAmounts, p \in LabelPrices }

\* a timestamp counted from an origin one clock step later
Rebased(t) == IF t >= TickStep THEN t - TickStep ELSE 0

\* Time passes between two sweeps, without bound: the awaits of a sweep take
\* less than a clock step.  The program only compares differences of
\* timestamps with 10 s, so once the clock has made LiveTicks steps every
\* timestamp is counted from an origin one step later instead.
TickLive ==
  /\ pc = "sleep"
  /\ IF now < LiveTicks * TickStep
     THEN Tick
     ELSE /\ now' = now
          /\ wakeAt' = Rebased(wakeAt)
          /\ ev' = [NoEv EXCEPT !.type = "tick"]
          /\ UNCHANGED <<alerts, pc, current_time, chatsLeft, curChat, itemsLeft,
                         cur, new_trades, failed, cmds, fetches, fmt>>
          /\ LET live == Roots(alerts', itemsLeft', cur', ev')
                 h == [o \in ObjIds |->
                         IF "free" \in DOMAIN objs[o] THEN objs[o]
                         ELSE [objs[o] EXCEPT !.last_check = Rebased(@)]]
             IN /\ objs' = Collect(h, live)
                /\ processed' = Forget(processed, live)
                /\ started' = [o \in ObjIds |->
                                IF o \notin live \/ started[o] = -1 THEN -1
                                ELSE Rebased(started[o])]

\* the fetch returns or fails, uncounted: it raises, or gives a trade that
\* is sent or one whose formatting fails
LiveOutcomes == {"raise", "T1", "T5"}
FetchReturns == \E r \in LiveOutcomes : FetchReturn(r) /\ UNCHANGED fetches

\* the send returns or fails
SendReturns == \E result \in SendOutcomes : SendReturn(result)

\* The steps of the program for ever: a bounded number of commands, polls
\* without bound.
NextLive ==
  \/ TickLive
  \/ \E k \in LiveKeys, a \in SweepArgs : cmds < LiveCmds /\ AddAlert(k[1], k[2], a)
  \/ \E k \in LiveKeys : cmds < LiveCmds /\ RemoveAlert(k[1], k[2])
  \/ SweepStart
  \/ FetchReturns
  \/ SendReturns

\* The steps of the program, for commands on the keys ks with the arguments
\* args and a run of at most nc commands, nf completed fetches and nt clock
\* steps.
NextOf(ks, args, nc, nf, nt) ==
  \/ now < nt * TickStep /\ Tick
  \/ \E k \in ks, a \in args : cmds < nc /\ AddAlert(k[1], k[2], a)
  \/ \E k \in ks : cmds < nc /\ RemoveAlert(k[1], k[2])
  \/ SweepStart
  \/ \E r \in FetchOutcomes :
       fetches < nf /\ FetchReturn(r) /\ fetches' = fetches + 1
  \/ \E result \in SendOutcomes : SendReturn(result)

Next == NextOf(Keys, AlertArgs, MaxCmds, MaxFetches, MaxTicks)
NextPoll == NextOf(PollKeys, AlertArgs, PollCmds, PollFetches, PollTicks)
NextSweep == NextOf(Keys, SweepArgs, SweepCmds, SweepFetches, SweepTicks)
NextStore == NextOf(Keys, SweepArgs, StoreCmds, StoreFetches, StoreTicks)

Spec == Init /\ [][Next]_vars
SpecPoll == Init /\ [][NextPoll]_vars
SpecSweep == Init /\ [][NextSweep]_vars
SpecStore == Init /\ [][NextStore]_vars
\* time passes, the sleep of main.py:67 ends, and every fetch and every send
\* eventually returns or fails
SpecLive ==
  /\ Init /\ [][NextLive]_vars
  /\ WF_vars(TickLive) /\ WF_vars(SweepStart)
  /\ WF_vars(FetchReturns) /\ WF_vars(SendReturns)
SpecLabel == InitLabel /\ [][LabelTrade]_vars

\* ================================================================= claims
\* The filter of the specification: the direction is unset or the trade's,
\* and the token amount (received for a buy, sent for a sell) is a number
\* that is at least min_amount.
FilterAmount(t) == IF t.kind = "buy" THEN t.to_token_amount ELSE t.from_token_amount
FilterMatches(a, t) ==
  /\ a.trade_type = None \/ a.trade_type = t.kind
  /\ FilterAmount(t).ok
  /\ FilterAmount(t).v >= a.min_amount

\* the step is the completion of a fetch that returned a trade
TradeStep == ev'.type = "fetch" /\ ev'.res \in TradeIds

\* C1: add_alert for a key that has a live subscription reports failure and
\* leaves the registry and the existing subscription as they were.
C1_CreateExistingRejected ==
  [][ (ev'.type = "alert" /\ get_alert(alerts, ev'.chat, ev'.token) # 0)
      => /\ ev'.ok = FALSE
         /\ alerts' = alerts
         /\ objs'[get_alert(alerts, ev'.chat, ev'.token)]
              = objs[get_alert(alerts, ev'.chat, ev'.token)] ]_vars

\* C2: a trade id that was classified for a subscription (notified or
\* filtered out) is never collected again for it as a notification that can
\* be formatted and sent.
C2_NeverNotifiedTwice ==
  [][ (ev'.type = "fetch" /\ ev'.collected /\ TradePrice(TradeOf(ev'.res)).ok)
      => ev'.res \notin processed[cur.obj] ]_vars

\* C3: a polled trade whose id is the cursor gives no notification and changes
\* only last_check; one whose id differs and that matches the filter gives
\* the one notification of this subscription in this sweep.
C3_NewIffDiffersFromCursor ==
  [][ TradeStep =>
      LET a == objs[cur.obj]
          b == objs'[cur.obj]
          t == TradeOf(ev'.res)
      IN /\ t.id = a.last_trade_id
              => ~ev'.collected /\ b = [a EXCEPT !.last_check = current_time]
         /\ (t.id # a.last_trade_id /\ FilterMatches(a, t))
              => /\ ev'.collected
                 /\ \A i \in 1..Len(new_trades) :
                      <<new_trades[i].chat, new_trades[i].token>> # <<curChat, cur.token>> ]_vars

\* C3 witness: the poll returned the trade the cursor already names, a trade
\* that passes this subscription's filter, and nothing was collected
C3_Witness ==
  /\ ev.type = "fetch" /\ ev.res = "T1" /\ ~ev.collected
  /\ objs[ev.obj].trade_type = "buy"
  /\ objs[ev.obj].last_trade_id = "T1"
  /\ objs[ev.obj].last_check = now /\ now > 0

\* C4: after a poll that returned trade T and evaluated the filters, the
\* cursor is T whether T passed or was suppressed by direction or amount, and
\* a poll that returns the cursor's trade collects nothing.
C4_CursorAdvancesWhenFiltered ==
  [][ TradeStep =>
      LET a == objs[cur.obj]
          b == objs'[cur.obj]
          t == TradeOf(ev'.res)
      IN /\ (FilterAmount(t).ok \/ a.trade_type \notin {None, t.kind})
              => b.last_trade_id = t.id
         /\ t.id = a.last_trade_id => ~ev'.collected ]_vars

\* C4 witness: a sell polled for a buy-only subscription after its first
\* notification: nothing collected, cursor on the sell
C4_Witness ==
  /\ ev.type = "fetch" /\ ev.res = "T2" /\ ~ev.collected
  /\ objs[ev.obj].trade_type = "buy"
  /\ objs[ev.obj].last_trade_id = "T2"
  /\ "T1" \in processed[ev.obj]

RECURSIVE RestOfSweep(_, _)
\* the subscriptions the sweep has still to visit: those of the snapshot of
\* the current chat, then those of the snapshot's later chats as the
\* registry has them now, up to the first chat that has left the registry
RestOfSweep(its, chs) ==
  IF chs = <<>> THEN its
  ELSE IF ChatIdx(alerts, Head(chs)) = 0 THEN its
  ELSE RestOfSweep(its \o [i \in 1..Len(alerts[ChatIdx(alerts, Head(chs))].items) |->
                             [token |-> alerts[ChatIdx(alerts, Head(chs))].items[i].token,
                              obj |-> alerts[ChatIdx(alerts, Head(chs))].items[i].obj]],
                   Tail(chs))

\* the positions of the subscriptions of s whose cooldown has elapsed
DuePositions(s) ==
  { i \in 1..Len(s) : current_time - objs[s[i].obj].last_check >= MinPollInterval }

\* C5: when the fetch for one subscription raises, the sweep goes on to fetch
\* the next due subscription with what it has collected so far, and a later
\* subscription of that sweep whose trade is new and matches is collected.
C5_FetchErrorIsolated ==
  [][ (ev'.type = "fetch") =>
      LET rest == RestOfSweep(itemsLeft, chatsLeft)
          due == DuePositions(rest)
      IN /\ (ev'.res = "raise" /\ due # {})
              => /\ pc' = "fetch"
                 /\ cur' = rest[CHOOSE i \in due : \A j \in due : i <= j]
                 /\ new_trades' = new_trades
                 /\ ev'.raised = ""
         /\ (failed # {} /\ ev'.res \in TradeIds
               /\ ev'.res # objs[cur.obj].last_trade_id
               /\ FilterMatches(objs[cur.obj], TradeOf(ev'.res)))
              => ev'.collected ]_vars

\* C5 witness: a trade collected for one subscription in a sweep in which
\* the fetch for another one raised
C5_Witness ==
  /\ ev.type = "fetch" /\ ev.collected
  /\ \E f \in failed : f.res = "raise" /\ <<f.chat, f.token>> # <<ev.chat, ev.token>>

\* C6: every poll attempt, whatever its outcome, leaves last_check at the
\* sweep's time.
C6_AttemptAlwaysStamped ==
  [][ ev'.type = "fetch" => objs'[cur.obj].last_check = current_time ]_vars

\* C7: a new trade is collected for notification exactly when the direction
\* is unset or the trade's and the token amount is at least min_amount.
C7_FilterCorrect ==
  [][ (TradeStep /\ ev'.res # objs[cur.obj].last_trade_id)
      => (ev'.collected <=> FilterMatches(objs[cur.obj], TradeOf(ev'.res))) ]_vars

\* C7 witness: a buy of exactly min_amount collected for a buy-only
\* subscription with min_amount 50
C7_Witness ==
  /\ ev.type = "fetch" /\ ev.res = "T1" /\ ev.collected
  /\ objs[ev.obj].trade_type = "buy"
  /\ objs[ev.obj].min_amount = Min50
  /\ TradeOf("T1").to_token_amount.v = Min50

C9_SendFailureIsolated ==
  [][ ev'.type = "send" =>
      /\ alerts' = alerts
      /\ \A o \in StoreRefs(alerts) : objs'[o] = objs[o]
      /\ SelectSeq(new_trades', Formattable) = SelectSeq(Tail(new_trades), Formattable)
      /\ SelectSeq(Tail(new_trades), Formattable) # <<>>
           => pc' = "send" /\ Formattable(Head(new_trades')) ]_vars

\* C9 witness: a send failed, the subscription's cursor is still the trade
\* that was not delivered, and the send for another chat is under way
C9_Witness ==
  /\ ev.type = "send" /\ ev.result = "send_failed"
  /\ get_alert(alerts, ev.chat, ev.token) # 0
  /\ objs[get_alert(alerts, ev.chat, ev.token)].last_trade_id = ev.res
  /\ pc = "send"
  /\ Head(new_trades).chat # ev.chat

\* C10: no command handled while the sweep awaits a fetch makes the sweep
\* raise: nothing ever reaches the except clause of main.py:64.
C10_SweepNeverAborts == ev.raised = ""

\* C11: remove_alert for a key without a subscription returns False and
\* changes nothing in the store; for a key with one it returns True, the key
\* is then absent from get_alert and from the chat's list, and every other
\* subscription is the same object with the same fields.
C11_RemoveExact ==
  [][ ev'.type = "removealert" =>
      LET c == ev'.chat
          t == ev'.token
          o == get_alert(alerts, c, t)
          toks == get_active_alerts(alerts', c)
      IN /\ o = 0 =>
              /\ ev'.ok = FALSE
              /\ alerts' = alerts
              /\ \A x \in StoreRefs(alerts) : objs'[x] = objs[x]
         /\ o # 0 =>
              /\ ev'.ok = TRUE
              /\ get_alert(alerts', c, t) = 0
              /\ \A i \in 1..Len(toks) : toks[i] # t
              /\ \A k \in Keys \ {<<c, t>>} :
                   /\ get_alert(alerts', k[1], k[2]) = get_alert(alerts, k[1], k[2])
                   /\ get_alert(alerts, k[1], k[2]) # 0
                        => objs'[get_alert(alerts, k[1], k[2])]
                             = objs[get_alert(alerts, k[1], k[2])] ]_vars

\* C11 witness: a removal that returned True and left another subscription
\* of the same chat in the store
C11_Witness ==
  /\ ev.type = "removealert" /\ ev.ok
  /\ get_alert(alerts, ev.chat, ev.token) = 0
  /\ get_active_alerts(alerts, ev.chat) # <<>>

\* C12: the label is a function of the USD value with inclusive upper
\* bounds: Shrimp up to 100, Fish above 100 up to 1000, Dolphin above 1000
\* up to 2000, Whale above 2000; every value gets exactly one label.
C12_SizeBuckets ==
  fmt.size_label # "" =>
    LET v == fmt.amount * fmt.price
    IN /\ fmt.total_value_usd = v
       /\ fmt.size_label = "Shrimp" <=> v <= 10000
       /\ fmt.size_label = "Fish" <=> (10000 < v /\ v <= 100000)
       /\ fmt.size_label = "Dolphin" <=> (100000 < v /\ v <= 200000)
       /\ fmt.size_label = "Whale" <=> 200000 < v
       /\ fmt.size_label \in {"Shrimp", "Fish", "Dolphin", "Whale"}

\* C12 witness: 2000.00 USD (4 tokens at 500.00) labelled Dolphin
C12_Witness ==
  /\ fmt.amount = 4 /\ fmt.price = 50000
  /\ fmt.total_value_usd = 200000
  /\ fmt.size_label = "Dolphin"

\* C13: the message sent for a trade of a subscription that has a ref_code
\* carries that ref_code in its trade link, and the placeholder XXXX only
\* when the subscription has none.
C13_RefCodeEmbedded ==
  [][ ev'.type = "send" =>
      LET o == get_alert(alerts, ev'.chat, ev'.token)
      IN (o # 0 /\ objs[o].last_trade_id = ev'.res)
           => ev'.ref = IF objs[o].ref_code # None THEN objs[o].ref_code ELSE "XXXX" ]_vars

\* C14: while a key has a subscription its cursor is never reset to unset
\* once it holds a trade id, and never goes back to a trade id it has held
\* before.
C14_CursorNeverReverts ==
  [][ \A k \in Keys :
        LET o == get_alert(alerts, k[1], k[2])
            n == get_alert(alerts', k[1], k[2])
        IN (o # 0 /\ n # 0) =>
             /\ objs[o].last_trade_id # None => objs'[n].last_trade_id # None
             /\ (n = o /\ objs'[o].last_trade_id # objs[o].last_trade_id)
                  => objs'[o].last_trade_id \notin processed[o] ]_vars

C16_FetchNeverBlocks ==
  (pc = "fetch" /\ DuePositions(RestOfSweep(itemsLeft, chatsLeft)) # {})
    => ENABLED (SweepStart \/ \E result \in SendOutcomes : SendReturn(result))

\* C17: when the fetch completes for a subscription that was removed from
\* the registry, or removed and created again, while the fetch was pending,
\* the registry is unchanged (the key is not created again) and no stored
\* subscription changes, the new one of the same key included.
C17_StalePollNoOp ==
  [][ (ev'.type = "fetch" /\ get_alert(alerts, curChat, cur.token) # cur.obj)
      => /\ alerts' = alerts
         /\ \A o \in StoreRefs(alerts) : objs'[o] = objs[o] ]_vars

\* C17 witness: a poll that found a trade completed after its subscription
\* was removed and the key created again; the new subscription has its
\* unset cursor and the time of its creation
C17_Witness ==
  /\ ev.type = "fetch" /\ ev.res \in TradeIds
  /\ get_alert(alerts, ev.chat, ev.token) \notin {0, ev.obj}
  /\ objs[ev.obj].last_trade_id = ev.res
  /\ objs[get_alert(alerts, ev.chat, ev.token)].last_trade_id = None
  /\ objs[get_alert(alerts, ev.chat, ev.token)].last_check = now

\* C18: a fetched trade whose amount or price is not a number gives no
\* notification and leaves last_check at the sweep's time, whichever of the
\* two fields is malformed.
C18_MalformedLikeNoNewTrade ==
  [][ (TradeStep /\ ~(TradeAmount(TradeOf(ev'.res)).ok /\ TradePrice(TradeOf(ev'.res)).ok))
      => /\ ~ev'.collected
         /\ objs'[cur.obj].last_check = current_time ]_vars

\* C19: a subscription just created has an unset cursor, and the first poll
\* that fetches a trade for it takes the trade as new: it is collected if it
\* matches the filter, and matching or not, the cursor becomes its id.
C19_FirstPollTakesLatestAsNew ==
  [][ /\ ev'.type = "alert"
        => objs'[get_alert(alerts', ev'.chat, ev'.token)].last_trade_id = None
      /\ (TradeStep /\ objs[cur.obj].last_trade_id = None)
        => LET a == objs[cur.obj]
               t == TradeOf(ev'.res)
           IN /\ FilterMatches(a, t) => ev'.collected
              /\ (FilterAmount(t).ok \/ a.trade_type \notin {None, t.kind})
                   => objs'[cur.obj].last_trade_id = t.id ]_vars

\* C19 witness: the first trade polled for a subscription, a matching buy,
\* was collected and is the cursor
C19_Witness ==
  /\ ev.type = "fetch" /\ ev.res = "T1" /\ ev.collected
  /\ processed[ev.obj] = {"T1"}
  /\ objs[ev.obj].last_trade_id = "T1"

C21_NoSendAfterRemove ==
  [][ (pc' = "send" /\ (pc # "send" \/ new_trades' # new_trades))
      => get_alert(alerts', Head(new_trades').chat, Head(new_trades').token) # 0 ]_vars

====
